---------------------------- MODULE Spec2Model ----------------------------
(***************************************************************************)
(* Province data access layer of the Clausewitz-style web map projection:  *)
(* the Province / ProvincesData models (core/models.py), the loader        *)
(* load_provinces and the handlers get_provinces, get_province and         *)
(* _get_map_layer_files (main.py).                                         *)
(*                                                                         *)
(* Text is a sequence of one-character strings, a JSON value is a tagged   *)
(* record (the Python object json.load builds), a validated model is a     *)
(* function from field names to plain Python values.                       *)
(***************************************************************************)
EXTENDS Integers, Sequences, FiniteSets, TLC

VARIABLES
    cand,       \* the candidate payload handed to Province validation
    verdict,    \* the outcome of validating cand
    file,       \* provinces.json on disk: absent, malformed text or a document
    req,        \* per request: position in the handler, locals, response
    static,     \* the static directory: absent, or the set of names in it
    layers      \* _get_map_layer_files: position, glob queue, map_files, result

vars == <<cand, verdict, file, req, static, layers>>

-----------------------------------------------------------------------------
(* JSON values as json.load returns them *)

JInt(n) == [t |-> "int", n |-> n]
JStr(s) == [t |-> "str", s |-> s]
JFloat(i, f) == [t |-> "float", ip |-> i, frac |-> f]
JBool(b) == [t |-> "bool", b |-> b]
JNull == [t |-> "null"]
JArr == [t |-> "array"]
JObj(o) == [t |-> "object", o |-> o]

EmptyMap == [k \in {} |-> k]

Ok(v) == [ok |-> TRUE, val |-> v]
Err(e) == [ok |-> FALSE, err |-> e]

-----------------------------------------------------------------------------
(* core/models.py: Province *)

Fields == <<"id", "name", "type", "owner", "development", "trade_goods",
            "terrain", "description">>

FieldSet == {Fields[i] : i \in DOMAIN Fields}

FieldType(f) == IF f \in {"id", "development"} THEN "int" ELSE "str"

DigitChars == <<"0", "1", "2", "3", "4", "5", "6", "7", "8", "9">>

IsDigit(c) == \E i \in DOMAIN DigitChars : DigitChars[i] = c

DigitVal(c) == (CHOOSE i \in DOMAIN DigitChars : DigitChars[i] = c) - 1

RECURSIVE DigitsAsNat(_)
DigitsAsNat(s) ==
    IF s = <<>> THEN 0
    ELSE 10 * DigitsAsNat(SubSeq(s, 1, Len(s) - 1)) + DigitVal(s[Len(s)])

AllDigits(s) == Len(s) > 0 /\ \A i \in DOMAIN s : IsDigit(s[i])

\* the integer a decimal string stands for: an optional sign, then digits
StrParsesAsInt(s) ==
    \/ AllDigits(s)
    \/ Len(s) > 1 /\ s[1] \in {"-", "+"} /\ AllDigits(Tail(s))

StrAsInt(s) ==
    IF s[1] = "-" THEN 0 - DigitsAsNat(Tail(s))
    ELSE IF s[1] = "+" THEN DigitsAsNat(Tail(s))
    ELSE DigitsAsNat(s)

int_validate_strict(j) ==
    IF j.t = "int" THEN Ok(j.n) ELSE Err("int_type")

\* a field declared int, validated in the default (lax) mode
int_validate(j) ==
    CASE j.t = "int" -> Ok(j.n)
      [] j.t = "bool" -> Ok(IF j.b THEN 1 ELSE 0)
      [] j.t = "float" -> IF j.frac = 0 THEN Ok(j.ip) ELSE Err("int_from_float")
      [] j.t = "str" -> IF StrParsesAsInt(j.s) THEN Ok(StrAsInt(j.s))
                        ELSE Err("int_parsing")
      [] OTHER -> Err("int_type")

\* a field declared str
str_validate(j) ==
    IF j.t = "str" THEN Ok(j.s) ELSE Err("string_type")

field_validate(o, f) ==
    IF f \notin DOMAIN o THEN Err("missing")
    ELSE IF FieldType(f) = "int" THEN int_validate(o[f])
    ELSE str_validate(o[f])

\* Province.model_validate: every declared field is validated, every error
\* is collected, undeclared keys are ignored
Province_validate(j) ==
    IF j.t # "object" THEN [ok |-> FALSE, errors |-> {<<"", "model_type">>}]
    ELSE LET bad == {f \in FieldSet : ~field_validate(j.o, f).ok}
         IN  IF bad = {}
             THEN [ok |-> TRUE,
                   val |-> [f \in FieldSet |-> field_validate(j.o, f).val]]
             ELSE [ok |-> FALSE,
                   errors |-> {<<f, field_validate(j.o, f).err>> : f \in bad}]

Province_dump_lossy(p) ==
    [f \in FieldSet |-> IF FieldType(f) = "int" THEN JInt(0) ELSE JStr(p[f])]

\* Province.model_dump followed by the JSON rendering of the response
Province_dump(p) ==
    [f \in FieldSet |-> IF FieldType(f) = "int" THEN JInt(p[f]) ELSE JStr(p[f])]

-----------------------------------------------------------------------------
(* the payloads the model draws from *)

Scotland ==
    [id |-> JInt(1), name |-> JStr(<<"S", "c", "o">>),
     type |-> JStr(<<"l", "a", "n", "d">>), owner |-> JStr(<<"S", "C", "O">>),
     development |-> JInt(3), trade_goods |-> JStr(<<"w", "o", "o", "l">>),
     terrain |-> JStr(<<"h", "i", "l", "l", "s">>),
     description |-> JStr(<<"N">>)]

Scalars ==
    {JInt(999), JInt(0 - 2), JStr(<<"1", "2", "3">>), JStr(<<"-", "7">>),
     JStr(<<"a", "b", "c">>), JStr(<<>>), JStr(<<"-">>), JFloat(3, 0),
     JFloat(3, 5), JBool(TRUE), JNull, JArr, JObj(EmptyMap)}

Without(o, f) == [g \in DOMAIN o \ {f} |-> o[g]]

With(o, f, v) == [g \in DOMAIN o \cup {f} |-> IF g = f THEN v ELSE o[g]]

\* Scotland with up to MaxFaults fields removed or replaced
RECURSIVE Faulty(_)
Faulty(n) ==
    IF n = 0 THEN {Scotland}
    ELSE LET prev == Faulty(n - 1)
         IN  prev
             \cup {Without(o, f) : o \in prev, f \in {"id", "development", "name"}}
             \cup {With(o, f, v) : o \in prev,
                                   f \in {"id", "development", "name", "extra"},
                                   v \in Scalars}

MaxFaults == 2

Candidates ==
    {JObj(o) : o \in Faulty(MaxFaults)}
    \cup {JObj(Without(Scotland, f)) : f \in FieldSet}
    \cup {JObj(With(Scotland, f, v)) : f \in FieldSet, v \in Scalars}
    \cup Scalars

NoVerdict == [done |-> FALSE]

-----------------------------------------------------------------------------
(* validation of one record *)

IdleFile == [kind |-> "absent"]
IdleReq == <<>>
IdleStatic == [exists |-> FALSE, names |-> {}]
IdleLayers == [pc |-> "idle", pending |-> {}, map_files |-> <<>>, resp |-> [kind |-> "none"]]

InitRecord ==
    /\ cand \in Candidates
    /\ verdict = NoVerdict
    /\ file = IdleFile
    /\ req = IdleReq
    /\ static = IdleStatic
    /\ layers = IdleLayers

ValidateRecord ==
    /\ ~verdict.done
    /\ verdict' = [done |-> TRUE, res |-> Province_validate(cand)]
    /\ UNCHANGED <<cand, file, req, static, layers>>

SpecRecord == InitRecord /\ [][ValidateRecord]_vars

\* the record format as documented: all eight fields, each of its JSON type
StrictlyTyped(j) ==
    /\ j.t = "object"
    /\ \A f \in FieldSet : f \in DOMAIN j.o /\ j.o[f].t = FieldType(f)

\* C2 as stated: a record is accepted iff all eight fields are present and
\* each holds a JSON value of exactly its declared type (so a string id,
\* digits or not, is rejected)
C2_Original ==
    verdict.done => (verdict.res.ok <=> StrictlyTyped(cand))

LaxInt(v) ==
    \/ v.t \in {"int", "bool"}
    \/ v.t = "float" /\ v.frac = 0
    \/ v.t = "str" /\ StrParsesAsInt(v.s)

LaxTyped(j) ==
    /\ j.t = "object"
    /\ \A f \in FieldSet :
          /\ f \in DOMAIN j.o
          /\ IF FieldType(f) = "int" THEN LaxInt(j.o[f]) ELSE j.o[f].t = "str"

\* C2 (amended): a record is accepted iff all eight fields are present, the
\* six text fields hold JSON strings and id and development each hold a JSON
\* integer or a value the lax integer conversion accepts (a boolean, a float
\* without fractional part, a string that parses as an integer); a record
\* of exactly the declared types is accepted, and an id string that does not
\* parse as an integer is rejected.
C2_Validation ==
    verdict.done =>
        /\ verdict.res.ok <=> LaxTyped(cand)
        /\ StrictlyTyped(cand) => verdict.res.ok
        /\ (/\ cand.t = "object"
            /\ "id" \in DOMAIN cand.o
            /\ cand.o["id"].t = "str"
            /\ ~StrParsesAsInt(cand.o["id"].s)) => ~verdict.res.ok

\* a record whose id is the string "123" has been validated, and accepted
C2_Witness ==
    /\ verdict.done
    /\ verdict.res.ok
    /\ cand.t = "object"
    /\ cand.o["id"] = JStr(<<"1", "2", "3">>)
    /\ verdict.res.val["id"] = 123

-----------------------------------------------------------------------------
(* core/models.py: ProvincesData *)

\* ProvincesData(): the provinces field takes its default, a new empty dict
ProvincesData_default == [provinces |-> EmptyMap]

ValidationError(errs) == [ok |-> FALSE, exc |-> "ValidationError", errors |-> errs]

\* the errors of the failing entries, each under the key of its entry
EntryErrors(o, bad) ==
    UNION {{<<k, e[1], e[2]>> : e \in Province_validate(o[k]).errors} : k \in bad}

ProvincesData_validate_lenient(j) ==
    IF j.t # "object" THEN ValidationError({<<"", "", "model_type">>})
    ELSE IF "provinces" \notin DOMAIN j.o THEN Ok(ProvincesData_default)
    ELSE IF j.o["provinces"].t # "object"
         THEN ValidationError({<<"provinces", "", "dict_type">>})
    ELSE LET o == j.o["provinces"].o
             good == {k \in DOMAIN o : Province_validate(o[k]).ok}
         IN  Ok([provinces |-> [k \in good |-> Province_validate(o[k]).val]])

ProvincesData_validate_required(j) ==
    IF j.t # "object" THEN ValidationError({<<"", "", "model_type">>})
    ELSE IF "provinces" \notin DOMAIN j.o
         THEN ValidationError({<<"provinces", "", "missing">>})
    ELSE IF j.o["provinces"].t # "object"
         THEN ValidationError({<<"provinces", "", "dict_type">>})
    ELSE LET o == j.o["provinces"].o
             bad == {k \in DOMAIN o : ~Province_validate(o[k]).ok}
         IN  IF bad = {}
             THEN Ok([provinces |-> [k \in DOMAIN o |-> Province_validate(o[k]).val]])
             ELSE ValidationError(EntryErrors(o, bad))

\* ProvincesData.model_validate: provinces is defaulted when the key is
\* missing; otherwise it must be a dict whose every value validates as a
\* Province, and one failing entry fails the whole model
ProvincesData_validate(j) ==
    IF j.t # "object" THEN ValidationError({<<"", "", "model_type">>})
    ELSE IF "provinces" \notin DOMAIN j.o THEN Ok(ProvincesData_default)
    ELSE IF j.o["provinces"].t # "object"
         THEN ValidationError({<<"provinces", "", "dict_type">>})
    ELSE LET o == j.o["provinces"].o
             bad == {k \in DOMAIN o : ~Province_validate(o[k]).ok}
         IN  IF bad = {}
             THEN Ok([provinces |-> [k \in DOMAIN o |-> Province_validate(o[k]).val]])
             ELSE ValidationError(EntryErrors(o, bad))

\* ProvincesData.model_dump followed by the JSON rendering of the response
ProvincesData_dump(d) ==
    [provinces |->
        JObj([k \in DOMAIN d.provinces |-> JObj(Province_dump(d.provinces[k]))])]

-----------------------------------------------------------------------------
(* main.py, core/helpers.py: load_provinces *)

AbsentFile == [kind |-> "absent"]
MalformedFile == [kind |-> "malformed"]
JsonFile(doc) == [kind |-> "json", doc |-> doc]
NoFile == [kind |-> "none"]
PresentFile == [kind |-> "present"]

\* what a request keeps of the existence test: whether the file was there
Seen(f) == IF f = AbsentFile THEN AbsentFile ELSE PresentFile

Raise(e) == [ok |-> FALSE, exc |-> e, errors |-> {}]

FileExists_always(f) == TRUE

\* PROVINCES_FILE.exists()
FileExists(f) == f.kind # "absent"

\* json.load(f)
json_load(f) ==
    IF f.kind = "malformed" THEN Raise("JSONDecodeError") ELSE Ok(f.doc)

\* "with PROVINCES_FILE.open(...) as f": json.load, then model_validate
load_open(f) ==
    IF f.kind = "absent" THEN Raise("FileNotFoundError")
    ELSE IF ~json_load(f).ok THEN json_load(f)
    ELSE ProvincesData_validate(json_load(f).val)

\* load_provinces on a file that nothing changes during the call
load_provinces(f) ==
    IF ~FileExists(f) THEN Ok(ProvincesData_default) ELSE load_open(f)

-----------------------------------------------------------------------------
(* main.py: get_provinces, get_province *)

NoResp == [kind |-> "none"]
JSONResponse(c) == [kind |-> "json", status |-> 200, content |-> c]
HTTPException(code, d) == [kind |-> "http_exception", status |-> code, detail |-> d]
Propagated(l) == [kind |-> "raised", exc |-> l.exc, errors |-> l.errors]

\* the body of get_provinces after the load
get_provinces(loaded) ==
    IF ~loaded.ok THEN Propagated(loaded)
    ELSE JSONResponse(JObj(ProvincesData_dump(loaded.val)))

IdAsKey(n) == IF n = 999 THEN "999" ELSE IF n = 1 THEN "1" ELSE "other"

get_province_by_id(loaded, province_id) ==
    IF ~loaded.ok THEN Propagated(loaded)
    ELSE LET ps == loaded.val.provinces
             hit == {k \in DOMAIN ps : IdAsKey(ps[k]["id"]) = province_id}
         IN  IF hit = {} THEN HTTPException(404, "Province not found")
             ELSE JSONResponse(JObj(Province_dump(ps[CHOOSE k \in hit : TRUE])))

get_province_swallowing(loaded, province_id) ==
    IF ~loaded.ok \/ province_id \notin DOMAIN loaded.val.provinces
    THEN HTTPException(404, "Province not found")
    ELSE JSONResponse(JObj(Province_dump(loaded.val.provinces[province_id])))

\* the body of get_province after the load: provinces.get(province_id)
get_province(loaded, province_id) ==
    IF ~loaded.ok THEN Propagated(loaded)
    ELSE IF province_id \notin DOMAIN loaded.val.provinces
         THEN HTTPException(404, "Province not found")
    ELSE JSONResponse(JObj(Province_dump(loaded.val.provinces[province_id])))

Respond(op, province_id, loaded) ==
    IF op = "get_provinces" THEN get_provinces(loaded)
    ELSE get_province(loaded, province_id)

Calls(keys) ==
    {[op |-> "get_provinces", province_id |-> ""]}
    \cup {[op |-> "get_province", province_id |-> k] : k \in keys}

\* a request nobody is serving: no locals, no data instance, no response
IdleRequest ==
    [pc |-> "idle", op |-> "none", province_id |-> "",
     checked |-> NoFile, opened |-> NoFile, resp |-> NoResp]

ReadProvincesFileCached(r) ==
    IF \E q \in DOMAIN req : q # r /\ req[q].opened.kind \notin {"none", "absent"}
    THEN req[CHOOSE q \in DOMAIN req :
                 q # r /\ req[q].opened.kind \notin {"none", "absent"}].opened
    ELSE file

\* what opening and reading PROVINCES_FILE gives request r: the file as it is
ReadProvincesFile(r) == file

FileAfterOpenForWriting(f) == IF f.kind = "absent" THEN f ELSE MalformedFile

\* the file after open(encoding="utf-8"), which opens it for reading
FileAfterOpen(f) == f

\* the framework calls the handler of request r
Call(r, c) ==
    /\ req[r].pc = "idle"
    /\ req' = [req EXCEPT ![r] = [IdleRequest EXCEPT !.pc = "exists", !.op = c.op,
                                      !.province_id = c.province_id]]
    /\ UNCHANGED <<cand, verdict, file, static, layers>>

\* load_provinces up to the existence test; when the file is absent the
\* handler runs to its end on the default ProvincesData
CheckExists(r) ==
    /\ req[r].pc = "exists"
    /\ IF FileExists(file)
       THEN req' = [req EXCEPT ![r].pc = "open", ![r].checked = Seen(file)]
       ELSE req' = [req EXCEPT ![r].pc = "done", ![r].checked = Seen(file),
                        ![r].resp = Respond(req[r].op, req[r].province_id,
                                            Ok(ProvincesData_default))]
    /\ UNCHANGED <<cand, verdict, file, static, layers>>

\* load_provinces from the open on, then the rest of the handler
OpenFile(r) ==
    /\ req[r].pc = "open"
    /\ req' = [req EXCEPT ![r].pc = "done", ![r].opened = file,
                   ![r].resp = Respond(req[r].op, req[r].province_id,
                                       load_open(ReadProvincesFile(r)))]
    /\ file' = FileAfterOpen(file)
    /\ UNCHANGED <<cand, verdict, static, layers>>

\* the response is sent; the handler's locals are dropped
Return(r) ==
    /\ req[r].pc = "done"
    /\ req' = [req EXCEPT ![r] = IdleRequest]
    /\ UNCHANGED <<cand, verdict, file, static, layers>>

\* somebody outside the process creates, replaces or deletes provinces.json
ChangeFile(files) ==
    /\ file' \in files \ {file}
    /\ UNCHANGED <<cand, verdict, req, static, layers>>

-----------------------------------------------------------------------------
(* one request at a time, over every file the bounds allow *)

Province999 == With(Scotland, "id", JInt(999))

Payloads ==
    {JObj(Province999), JObj(Scotland), JObj(Without(Scotland, "development")),
     JObj(With(Scotland, "id", JStr(<<"1", "2", "3">>))),
     JObj(With(Scotland, "id", JStr(<<"a", "b", "c">>))), JNull}

Keys == {"123", "999", "SCO"}

LookupKeys == Keys \cup {"1"}

MaxEntries == 2

Mappings ==
    UNION {[K -> Payloads] : K \in {S \in SUBSET Keys : Cardinality(S) <= MaxEntries}}

Documents ==
    {JObj([provinces |-> JObj(m)]) : m \in Mappings}
    \cup {JObj(EmptyMap), JObj([version |-> JInt(1)]), JObj([provinces |-> JNull]),
          JObj([provinces |-> JArr]), JArr,
          JObj([provinces |-> JObj([SCO |-> JObj(Scotland)]), version |-> JInt(1)])}

Files == {AbsentFile, MalformedFile} \cup {JsonFile(d) : d \in Documents}

InitLoad ==
    /\ cand = JNull
    /\ verdict = NoVerdict
    /\ file \in Files
    /\ req = [r \in {1} |-> IdleRequest]
    /\ static = IdleStatic
    /\ layers = IdleLayers

\* the file changes only between requests
ReplaceFile ==
    /\ req[1].pc = "idle"
    /\ ChangeFile(Files)

NextLoad ==
    \/ \E c \in Calls(LookupKeys) : Call(1, c)
    \/ CheckExists(1)
    \/ OpenFile(1)
    \/ Return(1)
    \/ ReplaceFile

SpecLoad == InitLoad /\ [][NextLoad]_vars

HasProvinces(doc) ==
    /\ doc.t = "object"
    /\ "provinces" \in DOMAIN doc.o
    /\ doc.o["provinces"].t = "object"

Entries(doc) == doc.o["provinces"].o

EmptyDump == JSONResponse(JObj([provinces |-> JObj(EmptyMap)]))

NotFound == HTTPException(404, "Province not found")

\* C3: a document with at least one entry that fails record validation (one
\* that lacks development, for one) makes the load raise a validation error:
\* no response carries a dataset, with or without the bad entry.
C3_AllOrNothing ==
    \A r \in DOMAIN req :
        (/\ req[r].pc = "done"
         /\ file.kind = "json"
         /\ HasProvinces(file.doc)
         /\ \E k \in DOMAIN Entries(file.doc) :
                \/ ~Province_validate(Entries(file.doc)[k]).ok
                \/ /\ Entries(file.doc)[k].t = "object"
                   /\ "development" \notin DOMAIN Entries(file.doc)[k].o)
        => /\ req[r].resp.kind = "raised"
           /\ req[r].resp.exc = "ValidationError"

\* the full dump was asked of a file with one valid entry and one entry
\* without development, and the validation error came back
C3_Witness ==
    /\ req[1].pc = "done"
    /\ req[1].op = "get_provinces"
    /\ file = JsonFile(JObj([provinces |->
                 JObj(("SCO" :> JObj(Scotland))
                      @@ ("999" :> JObj(Without(Scotland, "development"))))]))
    /\ req[1].resp.exc = "ValidationError"

\* the keys of the dataset a file loads into
LoadedKeys(f) ==
    IF f.kind = "json" /\ HasProvinces(f.doc) THEN DOMAIN Entries(f.doc) ELSE {}

\* C4: on a dataset that loaded, get_province(k) returns the province stored
\* under the mapping key k when k is a key and not-found (404) otherwise,
\* whatever the id values are; on an empty dataset every key is not found.
C4_LookupByKey ==
    \A r \in DOMAIN req :
        (/\ req[r].pc = "done"
         /\ req[r].op = "get_province"
         /\ load_provinces(file).ok)
        => IF req[r].province_id \in LoadedKeys(file)
           THEN req[r].resp =
                    JSONResponse(JObj(Province_dump(Province_validate(
                        Entries(file.doc)[req[r].province_id]).val)))
           ELSE req[r].resp = NotFound

\* key "123" holds the province with id 999, there is no key "999", and the
\* lookup of "999" ended not found
C4_Witness ==
    /\ req[1].pc = "done"
    /\ req[1].op = "get_province"
    /\ req[1].province_id = "999"
    /\ file = JsonFile(JObj([provinces |-> JObj("123" :> JObj(Province999))]))
    /\ req[1].resp = NotFound

\* a document in the documented format: every entry has the eight fields,
\* each of its JSON type
SchemaDocument(doc) ==
    /\ HasProvinces(doc)
    /\ \A k \in DOMAIN Entries(doc) : StrictlyTyped(Entries(doc)[k])

\* C6: loading a document of the documented format and dumping the result,
\* as get_provinces does, gives a provinces mapping with the same keys and,
\* under each key, the same eight field values.
C6_RoundTrip ==
    \A r \in DOMAIN req :
        (/\ req[r].pc = "done"
         /\ req[r].op = "get_provinces"
         /\ file.kind = "json"
         /\ SchemaDocument(file.doc))
        => /\ req[r].resp.kind = "json"
           /\ req[r].resp.content.t = "object"
           /\ DOMAIN req[r].resp.content.o = {"provinces"}
           /\ LET out == req[r].resp.content.o["provinces"].o
                  inp == Entries(file.doc)
              IN  /\ DOMAIN out = DOMAIN inp
                  /\ \A k \in DOMAIN inp :
                        /\ DOMAIN out[k].o = FieldSet
                        /\ \A f \in FieldSet : out[k].o[f] = inp[k].o[f]

\* a document with two entries of the documented format has been dumped
C6_Witness ==
    /\ req[1].pc = "done"
    /\ req[1].op = "get_provinces"
    /\ file = JsonFile(JObj([provinces |->
                 JObj(("123" :> JObj(Province999)) @@ ("SCO" :> JObj(Scotland)))]))
    /\ req[1].resp.kind = "json"

\* C10: a file whose top-level object has no "provinces" key loads as the
\* empty dataset, as an absent file does: the full dump is {"provinces": {}}
\* and every lookup is not found.
C10_MissingProvincesKey ==
    \A r \in DOMAIN req :
        (/\ req[r].pc = "done"
         /\ file.kind = "json"
         /\ file.doc.t = "object"
         /\ "provinces" \notin DOMAIN file.doc.o)
        => /\ req[r].op = "get_provinces" => req[r].resp = EmptyDump
           /\ req[r].op = "get_province" => req[r].resp = NotFound
           /\ req[r].resp = Respond(req[r].op, req[r].province_id,
                                    load_provinces(AbsentFile))

\* the file holds {} and the full dump returned {"provinces": {}}
C10_Witness ==
    /\ req[1].pc = "done"
    /\ req[1].op = "get_provinces"
    /\ file = JsonFile(JObj(EmptyMap))
    /\ req[1].opened = file
    /\ req[1].resp = EmptyDump

-----------------------------------------------------------------------------
(* the server: requests in flight together while the file changes under them *)

MaxRequests == 2

Requests == 1 .. MaxRequests

DocA == JObj([provinces |-> JObj("123" :> JObj(Province999))])

DocB == JObj([provinces |->
            JObj(("123" :> JObj(Scotland)) @@ ("999" :> JObj(Province999)))])

DocBad == JObj([provinces |->
              JObj(("123" :> JObj(Scotland))
                   @@ ("999" :> JObj(Without(Scotland, "development"))))])

ServedFiles ==
    {AbsentFile, MalformedFile, JsonFile(JObj(EmptyMap)), JsonFile(DocA),
     JsonFile(DocB), JsonFile(DocBad)}

Init ==
    /\ cand = JNull
    /\ verdict = NoVerdict
    /\ file \in ServedFiles
    /\ req = [r \in Requests |-> IdleRequest]
    /\ static = IdleStatic
    /\ layers = IdleLayers

Next ==
    \/ \E r \in Requests, c \in Calls({"123", "999"}) : Call(r, c)
    \/ \E r \in Requests : CheckExists(r)
    \/ \E r \in Requests : OpenFile(r)
    \/ \E r \in Requests : Return(r)
    \/ ChangeFile(ServedFiles)

Spec == Init /\ [][Next]_vars

\* C1: a load that finds the file absent returns the empty dataset and
\* raises nothing, so get_provinces answers exactly {"provinces": {}}.
C1_AbsentFileIsEmpty ==
    \A r \in DOMAIN req :
        (req[r].pc = "done" /\ req[r].checked = AbsentFile)
        => /\ req[r].resp.kind # "raised"
           /\ req[r].op = "get_provinces" => req[r].resp = EmptyDump
           /\ req[r].op = "get_province" => req[r].resp = NotFound

\* the full dump found no file and answered {"provinces": {}}
C1_Witness ==
    \E r \in DOMAIN req :
        /\ req[r].pc = "done"
        /\ req[r].op = "get_provinces"
        /\ req[r].checked = AbsentFile
        /\ req[r].resp = EmptyDump

\* C5: when the file that is opened is malformed JSON or fails validation,
\* both handlers end with the very error the load raised: no response with
\* a dataset, no not-found; a response that is no error comes from an absent
\* file or from a load that succeeded.
C5_LoadErrorsPropagate ==
    \A r \in DOMAIN req :
        req[r].pc = "done" =>
            /\ (req[r].opened.kind \in {"malformed", "json"}
                /\ ~load_open(req[r].opened).ok)
               => /\ req[r].resp = Propagated(load_open(req[r].opened))
                  /\ req[r].resp.kind = "raised"
            /\ req[r].opened = MalformedFile => req[r].resp.exc = "JSONDecodeError"
            /\ req[r].opened = JsonFile(DocBad) => req[r].resp.exc = "ValidationError"
            /\ req[r].resp.kind # "raised"
               => \/ req[r].checked = AbsentFile
                  \/ load_open(req[r].opened).ok

\* a lookup read a file with an entry that fails validation and ended with
\* the validation error
C5_Witness ==
    \E r \in DOMAIN req :
        /\ req[r].pc = "done"
        /\ req[r].op = "get_province"
        /\ req[r].province_id = "123"
        /\ req[r].opened = JsonFile(DocBad)
        /\ req[r].resp.kind = "raised"
        /\ req[r].resp.exc = "ValidationError"

\* C7: the response of every request is the handler's answer to what that
\* request's own load found on disk (absent at the existence test, or the
\* content at the open), whatever earlier or other loads found; a request
\* that returned leaves nothing behind.
C7_NoCaching ==
    \A r \in DOMAIN req :
        /\ req[r].pc = "done"
           => req[r].resp =
                  Respond(req[r].op, req[r].province_id,
                          IF req[r].checked = AbsentFile
                          THEN Ok(ProvincesData_default)
                          ELSE load_open(req[r].opened))
        /\ req[r].pc = "idle" => req[r] = IdleRequest

\* two full dumps are answered, one from each of two contents the file had
C7_Witness ==
    \E r, q \in DOMAIN req :
        /\ req[r].pc = "done" /\ req[q].pc = "done"
        /\ req[r].op = "get_provinces" /\ req[q].op = "get_provinces"
        /\ req[r].opened = JsonFile(DocA)
        /\ req[q].opened = JsonFile(DocB)
        /\ req[r].resp # req[q].resp
        /\ file = JsonFile(DocB)

\* C9: a step of a request leaves the file as it was and touches no other
\* request, and a request ends with the response it would give running
\* alone on the file content its load found (unless the file was deleted
\* between its existence test and its open, when no one content was found).
C9_IndependentLoads ==
    [][req' # req =>
         /\ file' = file
         /\ \A r \in DOMAIN req :
              req'[r] # req[r] =>
                /\ \A q \in DOMAIN req \ {r} : req'[q] = req[q]
                /\ (/\ req'[r].pc = "done"
                    /\ req[r].pc # "done"
                    /\ ~(req'[r].checked = PresentFile
                          /\ req'[r].opened = AbsentFile))
                   => req'[r].resp =
                          Respond(req'[r].op, req'[r].province_id,
                                  load_provinces(IF req'[r].checked = AbsentFile
                                                 THEN AbsentFile
                                                 ELSE req'[r].opened))]_vars

\* one request has its response from the file another is about to open
C9_Witness ==
    \E r, q \in DOMAIN req :
        /\ r # q
        /\ req[r].pc = "done"
        /\ req[r].opened = JsonFile(DocB)
        /\ req[r].resp.kind = "json"
        /\ req[q].pc = "open"
        /\ req[q].checked = PresentFile
        /\ file = JsonFile(DocB)

-----------------------------------------------------------------------------
(* main.py: _get_map_layer_files, get_map_layers *)

\* the code points of the characters the file names are written in
CodePoint ==
    ("." :> 46) @@ ("2" :> 50) @@ ("Z" :> 90) @@ ("_" :> 95) @@ ("a" :> 97)
    @@ ("b" :> 98) @@ ("d" :> 100) @@ ("g" :> 103) @@ ("i" :> 105)
    @@ ("k" :> 107) @@ ("l" :> 108) @@ ("m" :> 109) @@ ("n" :> 110)
    @@ ("p" :> 112) @@ ("s" :> 115) @@ ("t" :> 116) @@ ("u" :> 117)
    @@ ("v" :> 118) @@ ("x" :> 120)

\* str < str in Python: by code point, a proper prefix first
RECURSIVE StrLess(_, _)
StrLess(a, b) ==
    IF b = <<>> THEN FALSE
    ELSE IF a = <<>> THEN TRUE
    ELSE IF Head(a) # Head(b) THEN CodePoint[Head(a)] < CodePoint[Head(b)]
    ELSE StrLess(Tail(a), Tail(b))

\* glob matching of a name against a pattern of literals and "*"
RECURSIVE fnmatch(_, _)
fnmatch(name, pat) ==
    IF pat = <<>> THEN name = <<>>
    ELSE IF Head(pat) = "*"
         THEN \/ fnmatch(name, Tail(pat))
              \/ name # <<>> /\ fnmatch(Tail(name), pat)
    ELSE /\ name # <<>>
         /\ Head(name) = Head(pat)
         /\ fnmatch(Tail(name), Tail(pat))

MapPattern == <<"*", "m", "a", "p", "*", ".", "p", "n", "g">>

data_map == <<"d", "a", "t", "a", "_", "m", "a", "p", ".", "p", "n", "g">>

visual_map ==
    <<"v", "i", "s", "u", "a", "l", "_", "m", "a", "p", ".", "p", "n", "g">>

\* static_path.glob("*map*.png"): the names of the directory that match
glob(dir) == {n \in dir.names : fnmatch(n, MapPattern)}

keep_all(filename) == TRUE

\* filename not in ["data_map.png", "visual_map.png"]
keep(filename) == filename \notin {data_map, visual_map}

RECURSIVE insort(_, _)
insort(x, seq) ==
    IF seq = <<>> THEN <<x>>
    ELSE IF StrLess(x, Head(seq)) THEN <<x>> \o seq
    ELSE <<Head(seq)>> \o insort(x, Tail(seq))

\* sorted(map_files)
RECURSIVE sorted(_)
sorted(seq) ==
    IF seq = <<>> THEN <<>> ELSE insort(Head(seq), sorted(Tail(seq)))

FileNames ==
    {<<"m", "a", "p", ".", "p", "n", "g">>,
     data_map,
     visual_map,
     <<"a", "_", "m", "a", "p", ".", "p", "n", "g">>,
     <<"Z", "m", "a", "p", "2", ".", "p", "n", "g">>,
     <<"x", "d", "a", "t", "a", "_", "m", "a", "p", ".", "p", "n", "g">>,
     <<"m", "a", "p", ".", "t", "x", "t">>,
     <<"m", "a", ".", "p", "n", "g">>,
     <<"m", "a", "p", "p", "n", "g">>,
     <<"m", "a", "p", ".", "p", "n", "g", ".", "b", "a", "k">>,
     <<"b", "g", ".", "m", "a", "p">>}

MaxFiles == 3

Directories ==
    {IdleStatic}
    \cup {[exists |-> TRUE, names |-> S] :
              S \in {T \in SUBSET FileNames : Cardinality(T) <= MaxFiles}}

InitLayers ==
    /\ cand = JNull
    /\ verdict = NoVerdict
    /\ file = IdleFile
    /\ req = IdleReq
    /\ static \in Directories
    /\ layers = IdleLayers

\* _get_map_layer_files up to the loop: map_files is empty, and the glob is
\* entered only when static exists
StartListing ==
    /\ layers.pc = "idle"
    /\ layers' = [pc |-> "loop",
                  pending |-> IF static.exists THEN glob(static) ELSE {},
                  map_files |-> <<>>, resp |-> [kind |-> "none"]]
    /\ UNCHANGED <<cand, verdict, file, req, static>>

\* one turn of the loop, on whichever name the directory scan yields next
Visit ==
    /\ layers.pc = "loop"
    /\ \E filename \in layers.pending :
          layers' = [layers EXCEPT
                        !.pending = @ \ {filename},
                        !.map_files = IF keep(filename)
                                      THEN Append(@, filename) ELSE @]
    /\ UNCHANGED <<cand, verdict, file, req, static>>

\* the loop is over: the sorted list returns and get_map_layers wraps it
FinishListing ==
    /\ layers.pc = "loop"
    /\ layers.pending = {}
    /\ layers' = [layers EXCEPT
                     !.pc = "done",
                     !.resp = JSONResponse([layers |-> sorted(layers.map_files)])]
    /\ UNCHANGED <<cand, verdict, file, req, static>>

ReturnListing ==
    /\ layers.pc = "done"
    /\ layers' = IdleLayers
    /\ UNCHANGED <<cand, verdict, file, req, static>>

\* the static directory changes between two listings
ChangeStatic ==
    /\ layers.pc = "idle"
    /\ static' \in Directories \ {static}
    /\ UNCHANGED <<cand, verdict, file, req, layers>>

NextLayers ==
    \/ StartListing
    \/ Visit
    \/ FinishListing
    \/ ReturnListing
    \/ ChangeStatic

SpecLayers == InitLayers /\ [][NextLayers]_vars

\* the name ends in ".png" and "map" stands somewhere before that ending
IsMapPng(n) ==
    /\ Len(n) >= 7
    /\ SubSeq(n, Len(n) - 3, Len(n)) = <<".", "p", "n", "g">>
    /\ \E i \in 1 .. Len(n) - 6 : SubSeq(n, i, i + 2) = <<"m", "a", "p">>

\* C8: the listing is strictly ascending (sorted, no duplicates), holds
\* exactly the names of the static directory that match *map*.png and are
\* neither data_map.png nor visual_map.png, and is empty when the directory
\* does not exist.
C8_MapLayerListing ==
    layers.pc = "done" =>
        LET out == layers.resp.content.layers
        IN  /\ \A i, j \in DOMAIN out : i < j => StrLess(out[i], out[j])
            /\ {out[i] : i \in DOMAIN out} =
                   {n \in static.names : IsMapPng(n) /\ n # data_map /\ n # visual_map}
            /\ data_map \notin {out[i] : i \in DOMAIN out}
            /\ visual_map \notin {out[i] : i \in DOMAIN out}
            /\ ~static.exists => out = <<>>

\* a directory with a reserved name and two layers was listed, the layer
\* with the upper-case initial first
C8_Witness ==
    /\ layers.pc = "done"
    /\ static.names = {data_map,
                       <<"a", "_", "m", "a", "p", ".", "p", "n", "g">>,
                       <<"Z", "m", "a", "p", "2", ".", "p", "n", "g">>}
    /\ layers.resp.content.layers =
           <<<<"Z", "m", "a", "p", "2", ".", "p", "n", "g">>,
             <<"a", "_", "m", "a", "p", ".", "p", "n", "g">>>>

=============================================================================
